---- MODULE Spec2Model ----
(***************************************************************************)
(* CircuitMatter: the SPAKE2+ verifier (circuitmatter/pase.py) and the     *)
(* RFC 6979 nonce generator (cm_ecdsa/rfc6979.py) as state machines.       *)
(*                                                                         *)
(* Byte strings are sequences over 0..255.  The 256-bit curve is scaled    *)
(* down to a curve of prime order over a small prime field so that every   *)
(* group element can be enumerated; the hash, HMAC, KDF and PBKDF2         *)
(* primitives of hashlib / circuitmatter.crypto are stood in for by a      *)
(* deterministic mixing function with short outputs.                       *)
(***************************************************************************)
EXTENDS Integers, Sequences, FiniteSets, TLC

VARIABLES prov, tr, gk, ex, nt, der, cv, zc

vars == <<prov, tr, gk, ex, nt, der, cv, zc>>

----------------------------------------------------------------------------
(* Byte-string helpers (Python bytes / int conversions). *)

Byte == 0..255

RECURSIVE FromBytesBEMod(_, _, _)
\* int.from_bytes(s, byteorder="big") % n, reduced while folding (acc starts at 0)
FromBytesBEMod(s, n, acc) ==
    IF s = <<>> THEN acc
    ELSE FromBytesBEMod(Tail(s), n, (acc * 256 + Head(s)) % n)

RECURSIVE FromBytesBE(_, _)
\* int.from_bytes(s, byteorder="big"), int(hexlify(s), 16) (acc starts at 0)
FromBytesBE(s, acc) ==
    IF s = <<>> THEN acc ELSE FromBytesBE(Tail(s), acc * 256 + Head(s))

RECURSIVE ToBytesLE(_, _)
\* value.to_bytes(len, "little") / struct.pack("<I"), struct.pack("<Q")
ToBytesLE(value, len) ==
    IF len = 0 THEN <<>>
    ELSE <<value % 256>> \o ToBytesLE(value \div 256, len - 1)

RECURSIVE ToBytesBE(_, _)
\* value.to_bytes(len, "big")
ToBytesBE(value, len) ==
    IF len = 0 THEN <<>>
    ELSE Append(ToBytesBE(value \div 256, len - 1), value % 256)

\* Python slice s[a:b] with 0 <= a, 0-based, b exclusive, clipped to the length
Slice(s, a, b) ==
    LET hi == IF b > Len(s) THEN Len(s) ELSE b
    IN  IF a >= hi THEN <<>> ELSE SubSeq(s, a + 1, hi)

RECURSIVE PowMod(_, _, _)
\* b^e mod q by repeated squaring
PowMod(b, e, q) ==
    IF e = 0 THEN 1
    ELSE LET r == PowMod(b, e \div 2, q)
         IN  IF e % 2 = 0 THEN (r * r) % q ELSE (((r * r) % q) * b) % q

RECURSIVE MixRange(_, _, _)
\* the mixing function the primitive stand-ins are built on: a polynomial in
\* the bytes s[lo..hi], evaluated by halving the range
MixRange(s, lo, hi) ==
    IF lo > hi THEN 0
    ELSE IF lo = hi THEN (s[lo] + 17) % 32749
    ELSE LET mid == (lo + hi) \div 2
         IN  (MixRange(s, lo, mid) * PowMod(31, hi - mid, 32749)
                + MixRange(s, mid + 1, hi)) % 32749

\* n output bytes of the stand-in keyed by tag over the input s
Digest(tag, s, n) ==
    LET hs == {MixRange(t, 1, Len(t)) : t \in {<<tag>> \o s}}
    IN  CHOOSE d \in {[i \in 1..n |-> (((h + 1) * (37 * i + 11)) % 32749) % 256] : h \in hs} :
          TRUE

\* the ASCII bytes of the info strings
Info_ConfirmationKeys == <<67, 111, 110, 102, 105, 114, 109, 97, 116, 105, 111, 110, 75, 101, 121, 115>>
Info_SessionKeys == <<83, 101, 115, 115, 105, 111, 110, 75, 101, 121, 115>>

----------------------------------------------------------------------------
(* The curve: y^2 = x^3 + a x + b over GF(CurveP), a = -3, prime order,   *)
(* cofactor 1, standing in for NIST256p.                                   *)

CurveP == 11
CurveA == 8
CurveB == 10
CurveOrder == 7
CurveCofactor == 1
GeneratorX == 2
GeneratorY == 1

\* the identity ("point at infinity"); an affine point is <<x, y>>
INFINITY == <<>>
Generator == <<GeneratorX, GeneratorY>>

\* orderlen(): bytes needed for a field element / a scalar
CoordLen == 1
baselen == 1

contains_point(x, y) ==
    (y * y - (x * x * x + CurveA * x + CurveB)) % CurveP = 0

CurvePoints ==
    {INFINITY} \cup {<<x, y>> : x \in 0..(CurveP - 1), y \in 0..(CurveP - 1)}

OnCurve(P) == P = INFINITY \/ contains_point(P[1], P[2])

\* modular inverse in GF(CurveP) of a non-zero element
InvP(a) == CHOOSE i \in 1..(CurveP - 1) : (i * (a % CurveP)) % CurveP = 1

PointNeg(P) ==
    IF P = INFINITY THEN INFINITY ELSE <<P[1], (CurveP - P[2]) % CurveP>>

PointDouble(P) ==
    IF P = INFINITY \/ P[2] = 0 THEN INFINITY
    ELSE LET l == ((3 * P[1] * P[1] + CurveA) * InvP(2 * P[2])) % CurveP
             x3 == (l * l - 2 * P[1]) % CurveP
             y3 == (l * (P[1] - x3) - P[2]) % CurveP
         IN  <<x3, y3>>

PointAdd(P, Q) ==
    IF P = INFINITY THEN Q
    ELSE IF Q = INFINITY THEN P
    ELSE IF P[1] = Q[1]
         THEN IF (P[2] + Q[2]) % CurveP = 0 THEN INFINITY ELSE PointDouble(P)
    ELSE LET l == ((Q[2] - P[2]) * InvP(Q[1] - P[1])) % CurveP
             x3 == (l * l - P[1] - Q[1]) % CurveP
             y3 == (l * (P[1] - x3) - P[2]) % CurveP
         IN  <<x3, y3>>

RECURSIVE MulLoop(_, _)
MulLoop(e, P) ==
    IF e = 0 THEN INFINITY
    ELSE IF e % 2 = 1 THEN PointAdd(PointDouble(MulLoop(e \div 2, P)), P)
    ELSE PointDouble(MulLoop(e \div 2, P))

\* scalar multiplication; the scalar is first reduced modulo the curve order
PointMul(e, P) == MulLoop(e % CurveOrder, P)

\* Point.to_bytes("uncompressed"); the identity has no such encoding
CanEncode(P) == P # INFINITY
to_bytes_uncompressed(P) == <<4>> \o ToBytesBE(P[1], CoordLen) \o ToBytesBE(P[2], CoordLen)

\* Point.from_bytes: uncompressed (04), hybrid (06/07), compressed (02/03)
from_bytes_candidates(data) ==
    IF Len(data) = 1 + 2 * CoordLen
    THEN IF data[1] = 4 \/ (data[1] \in {6, 7} /\ data[3] % 2 = data[1] % 2)
         THEN {<<data[2], data[3]>>} ELSE {}
    ELSE IF Len(data) = 1 + CoordLen /\ data[1] \in {2, 3}
    THEN {<<data[2], y>> : y \in {r \in 0..(CurveP - 1) : r % 2 = data[1] % 2}}
    ELSE {}

from_bytes_set(data) ==
    {P \in from_bytes_candidates(data) :
        P[1] < CurveP /\ P[2] < CurveP /\ contains_point(P[1], P[2])}

CanDecode(data) == from_bytes_set(data) # {}
from_bytes(data) == CHOOSE P \in from_bytes_set(data) : TRUE

\* the two fixed SPAKE2+ points, given in compressed form (pase.py 81-88)
M_bytes == <<2, 8>>
N_bytes == <<3, 10>>
M == from_bytes(M_bytes)
N == from_bytes(N_bytes)

----------------------------------------------------------------------------
(* Primitive stand-ins. *)

HASH_LEN_BYTES == 4
SYMMETRIC_KEY_LENGTH_BYTES == 2
GROUP_SIZE_BYTES == baselen
W_SIZE_BYTES == GROUP_SIZE_BYTES + 8

\* crypto.Hash
Hash(data) == Digest(1, data, HASH_LEN_BYTES)

\* crypto.HMAC
HMAC(key, data) == Digest(2, <<Len(key)>> \o key \o data, HASH_LEN_BYTES)

\* crypto.KDF(input_key, salt, info, length_bits), nbytes = length_bits / 8
crypto_KDF(key, salt, info, nbytes) ==
    Digest(3, <<Len(key)>> \o key \o <<Len(salt)>> \o salt \o info, nbytes)

\* hashlib.pbkdf2_hmac("sha256", password, salt, iterations, dklen)
pbkdf2_hmac(password, salt, iterations, dklen) ==
    Digest(4, <<iterations, Len(password)>> \o password \o salt, dklen)

----------------------------------------------------------------------------
(* pase.py: parameter derivation. *)

pbkdf2_w0w1(passcode, salt, iterations) ==
    LET ws == pbkdf2_hmac(ToBytesLE(passcode, 4), salt, iterations, W_SIZE_BYTES * 2)
        w0 == FromBytesBEMod(Slice(ws, 0, W_SIZE_BYTES), CurveOrder, 0)
        w1 == FromBytesBEMod(Slice(ws, W_SIZE_BYTES, Len(ws)), CurveOrder, 0)
    IN  <<w0, w1>>

initiator_values(passcode, salt, iterations) ==
    LET w == pbkdf2_w0w1(passcode, salt, iterations)
    IN  <<ToBytesBE(w[1], baselen), ToBytesBE(w[2], baselen)>>

verifier_values_w1_first(passcode, salt, iterations) ==
    LET w == pbkdf2_w0w1(passcode, salt, iterations)
        L == PointMul(w[2], Generator)
    IN  <<ToBytesBE(w[2], baselen), to_bytes_uncompressed(L)>>

\* verifier_values raises when L is the identity (no uncompressed encoding)
verifier_values_ok(passcode, salt, iterations) ==
    CanEncode(PointMul(pbkdf2_w0w1(passcode, salt, iterations)[2], Generator))

verifier_values(passcode, salt, iterations) ==
    LET w == pbkdf2_w0w1(passcode, salt, iterations)
        L == PointMul(w[2], Generator)
    IN  <<ToBytesBE(w[1], baselen), to_bytes_uncompressed(L)>>

----------------------------------------------------------------------------
(* Provisioning: both roles derive their values from one PBKDF2 call each. *)

MaxIterations == 3
Passcodes == {0, 1, 2, 20202021}
Salts == {<<1, 2>>, <<3>>, <<255, 0, 9>>}

Off == [pc |-> "off"]

ProvInit ==
    /\ prov \in [pc : {"start"}, passcode : Passcodes, salt : Salts,
                 iterations : 1..MaxIterations,
                 idone : {FALSE}, iv : {<<>>},
                 vdone : {FALSE}, vraised : {FALSE}, vv : {<<>>}]
    /\ tr = Off /\ gk = Off /\ ex = Off
    /\ nt = Off /\ der = Off /\ cv = Off /\ zc = Off

\* the prover calls initiator_values
ProvInitiator ==
    /\ prov.pc = "start" /\ ~prov.idone
    /\ prov' = [prov EXCEPT !.idone = TRUE,
                  !.iv = initiator_values(prov.passcode, prov.salt, prov.iterations)]
    /\ UNCHANGED <<tr, gk, ex, nt, der, cv, zc>>

\* the device calls verifier_values; L.to_bytes raises for the identity
ProvVerifier ==
    /\ prov.pc = "start" /\ ~prov.vdone
    /\ IF verifier_values_ok(prov.passcode, prov.salt, prov.iterations)
       THEN prov' = [prov EXCEPT !.vdone = TRUE,
                       !.vv = verifier_values(prov.passcode, prov.salt, prov.iterations)]
       ELSE prov' = [prov EXCEPT !.vdone = TRUE, !.vraised = TRUE]
    /\ UNCHANGED <<tr, gk, ex, nt, der, cv, zc>>

ProvNext == ProvInitiator \/ ProvVerifier

SpecProv == ProvInit /\ [][ProvNext]_vars

----------------------------------------------------------------------------
(* pase.py: Crypto_Transcript, one action per loop iteration. *)

MaxElemLen == 2

\* element j of length k has bytes 16*j + 1 .. 16*j + k (all non-zero, all distinct)
TrElem(j, k) == [i \in 1..k |-> 16 * j + i]

\* the list `elements` built from the six arguments
TranscriptElements(context, pA, pB, Z, V, w0) ==
    <<context, <<>>, <<>>, to_bytes_uncompressed(M), to_bytes_uncompressed(N),
      pA, pB, Z, V, w0>>

RECURSIVE SumLen(_)
\* first loop: total_length += len(e) + 8
SumLen(elements) ==
    IF elements = <<>> THEN 0
    ELSE Len(Head(elements)) + 8 + SumLen(Tail(elements))

\* struct.pack_into("<Q", tt, offset, n) needs offset + 8 <= len(tt)
pack_into_ok(tt, offset) == offset + 8 <= Len(tt)
pack_into(tt, offset, n) ==
    Slice(tt, 0, offset) \o ToBytesLE(n, 8) \o Slice(tt, offset + 8, Len(tt))

\* tt[offset : offset + len(e)] = e  (bytearray slice assignment)
slice_assign(tt, offset, e) ==
    LET lo == IF offset > Len(tt) THEN Len(tt) ELSE offset
        hi == IF offset + Len(e) > Len(tt) THEN Len(tt) ELSE offset + Len(e)
    IN  Slice(tt, 0, lo) \o e \o Slice(tt, hi, Len(tt))

after_prefix_none(offset) == offset
\* line 148: the offset after the length prefix of an element
after_prefix(offset) == offset + 8

\* write counts, kept beside the buffer: cells [lo, hi) written once more
Bump(wr, lo, n) ==
    LET a  == IF lo > Len(wr) THEN Len(wr) ELSE lo
        hi == IF lo + n > Len(wr) THEN Len(wr) ELSE lo + n
    IN  Slice(wr, 0, a) \o [i \in 1..n |-> IF a + i <= hi THEN wr[a + i] + 1 ELSE 1]
          \o Slice(wr, hi, Len(wr))

TrInit ==
    /\ \E lens \in [1..6 -> 0..MaxElemLen] :
         tr = [pc |-> "alloc",
               args |-> [j \in 1..6 |-> TrElem(j, lens[j])],
               elements |-> <<>>, tt |-> <<>>, wr |-> <<>>, offset |-> 0, idx |-> 1]
    /\ prov = Off /\ gk = Off /\ ex = Off
    /\ nt = Off /\ der = Off /\ cv = Off /\ zc = Off

\* lines 129-145: build the list, sum the lengths, allocate the zeroed bytearray
TrAlloc ==
    /\ tr.pc = "alloc"
    /\ LET a == tr.args
           elements == TranscriptElements(a[1], a[2], a[3], a[4], a[5], a[6])
           total_length == SumLen(elements)
       IN  tr' = [tr EXCEPT !.pc = "write", !.elements = elements,
                    !.tt = [i \in 1..total_length |-> 0],
                    !.wr = [i \in 1..total_length |-> 0],
                    !.offset = 0, !.idx = 1]
    /\ UNCHANGED <<prov, gk, ex, nt, der, cv, zc>>

\* lines 146-151: one iteration of the second loop
TrWrite ==
    /\ tr.pc = "write" /\ tr.idx <= Len(tr.elements)
    /\ LET e == tr.elements[tr.idx]
           o8 == after_prefix(tr.offset)
       IN  IF ~pack_into_ok(tr.tt, tr.offset)
           THEN tr' = [tr EXCEPT !.pc = "error"]
           ELSE tr' = [tr EXCEPT
                    !.tt = slice_assign(pack_into(tr.tt, tr.offset, Len(e)), o8, e),
                    !.wr = Bump(Bump(tr.wr, tr.offset, 8), o8, Len(e)),
                    !.offset = o8 + Len(e),
                    !.idx = tr.idx + 1]
    /\ UNCHANGED <<prov, gk, ex, nt, der, cv, zc>>

\* line 152: return tt
TrReturn ==
    /\ tr.pc = "write" /\ tr.idx > Len(tr.elements)
    /\ tr' = [tr EXCEPT !.pc = "done"]
    /\ UNCHANGED <<prov, gk, ex, nt, der, cv, zc>>

TrNext == TrAlloc \/ TrWrite \/ TrReturn

SpecTr == TrInit /\ [][TrNext]_vars

Framed_unprefixed(e) == e
\* what one iteration of the second loop appends: the length, then the bytes
Framed(e) == ToBytesLE(Len(e), 8) \o e

\* the whole function: the ten iterations of the loop, unrolled
Crypto_Transcript(context, pA, pB, Z, V, w0) ==
    Framed(context) \o Framed(<<>>) \o Framed(<<>>)
      \o Framed(to_bytes_uncompressed(M)) \o Framed(to_bytes_uncompressed(N))
      \o Framed(pA) \o Framed(pB) \o Framed(Z) \o Framed(V) \o Framed(w0)

----------------------------------------------------------------------------
(* pase.py: the verifier side of the exchange. *)

\* Crypto_pA(w0, w1): the prover share as the code computes it
Crypto_pA(w0, w1) == <<>>

Crypto_pB_masked_by_M(y, w0, L) == <<y, PointAdd(PointMul(y, Generator), PointMul(w0, M))>>
\* Crypto_pB, with y the value random_source.randbelow(order) returned
Crypto_pB(y, w0, L) == <<y, PointAdd(PointMul(y, Generator), PointMul(w0, N))>>

\* KDF(salt, key, info) of pase.py: crypto.KDF(key, salt, info, HASH_LEN_BITS);
\* the salt None is the empty salt
KDF(salt, key, info) == crypto_KDF(key, salt, info, HASH_LEN_BYTES)

Crypto_P2_swapped(tt, pA, pB) ==
    LET KaKe == Hash(tt)
        Ka == Slice(KaKe, 0, HASH_LEN_BYTES \div 2)
        Ke == Slice(KaKe, HASH_LEN_BYTES \div 2, Len(KaKe))
        KcAKcB == KDF(<<>>, Ka, Info_ConfirmationKeys)
        KcA == Slice(KcAKcB, 0, HASH_LEN_BYTES \div 2)
        KcB == Slice(KcAKcB, HASH_LEN_BYTES \div 2, Len(KcAKcB))
    IN  <<HMAC(KcA, pA), HMAC(KcB, pB), Ke>>

Crypto_P2(tt, pA, pB) ==
    LET KaKe == Hash(tt)
        Ka == Slice(KaKe, 0, HASH_LEN_BYTES \div 2)
        Ke == Slice(KaKe, HASH_LEN_BYTES \div 2, Len(KaKe))
        KcAKcB == KDF(<<>>, Ka, Info_ConfirmationKeys)
        KcA == Slice(KcAKcB, 0, HASH_LEN_BYTES \div 2)
        KcB == Slice(KcAKcB, HASH_LEN_BYTES \div 2, Len(KcAKcB))
        cA == HMAC(KcA, pB)
        cB == HMAC(KcB, pA)
    IN  <<cA, cB, Ke>>

cv_finish_swapped(P2) == [cB |-> P2[1], cA |-> P2[2], Ke |-> P2[3]]
\* lines 221-223: cA, cB, Ke = Crypto_P2(...); pake2.cB = cB; return cA, Ke
cv_finish(P2) == [cB |-> P2[2], cA |-> P2[1], Ke |-> P2[3]]

\* the call left by an exception: what pake2 holds, which of its fields were
\* written, how many values random_source gave
CvRaised(pB, cB, wrote, draws) ==
    [raised |-> TRUE, pB |-> pB, cB |-> cB, wrote |-> wrote, draws |-> draws,
     cA |-> <<>>, Ke |-> <<>>, tt |-> <<>>]

\* compute_verification(random_source, pake1, pake2, context, verifier), with y
\* the value random_source gives if asked
compute_verification(y, pake1, pake2, context, verifier) ==
    LET w0b == Slice(verifier, 0, GROUP_SIZE_BYTES)
        Lb  == Slice(verifier, GROUP_SIZE_BYTES, Len(verifier))
    IN  IF ~CanDecode(Lb) THEN CvRaised(pake2.pB, pake2.cB, {}, 0)
        ELSE
        LET L  == from_bytes(Lb)
            w0 == FromBytesBE(w0b, 0)
            Y  == Crypto_pB(y, w0, L)[2]
        IN  IF ~CanEncode(Y) THEN CvRaised(pake2.pB, pake2.cB, {}, 1)
            ELSE
            LET pB == to_bytes_uncompressed(Y)
                h  == CurveCofactor
            IN  IF ~CanDecode(pake1.pA) THEN CvRaised(pB, pake2.cB, {"pB"}, 1)
                ELSE
                LET X == from_bytes(pake1.pA)
                    Z == PointMul(h * y, PointAdd(X, PointNeg(PointMul(w0, M))))
                    V == PointMul(h * y, L)
                IN  IF ~CanEncode(Z) \/ ~CanEncode(V)
                    THEN CvRaised(pB, pake2.cB, {"pB"}, 1)
                    ELSE
                    LET tt == Crypto_Transcript(context, pake1.pA, pB,
                                                to_bytes_uncompressed(Z),
                                                to_bytes_uncompressed(V),
                                                ToBytesBE(w0, baselen))
                        fin == cv_finish(Crypto_P2(tt, pake1.pA, pB))
                    IN  [raised |-> FALSE, pB |-> pB, cB |-> fin.cB,
                         wrote |-> {"pB", "cB"}, draws |-> 1,
                         cA |-> fin.cA, Ke |-> fin.Ke, tt |-> tt]

\* an AESCCM context, by the key it was made with
AESCCM(key) == [key |-> key]

NoContext ==
    [i2r_key |-> <<>>, i2r |-> AESCCM(<<>>), r2i_key |-> <<>>, r2i |-> AESCCM(<<>>),
     attestation_challenge |-> <<>>]

r2i_slice_reused(keys) == Slice(keys, 0, SYMMETRIC_KEY_LENGTH_BYTES)
\* lines 186-188: keys[SYMMETRIC_KEY_LENGTH_BYTES : 2 * SYMMETRIC_KEY_LENGTH_BYTES]
r2i_slice(keys) ==
    Slice(keys, SYMMETRIC_KEY_LENGTH_BYTES, 2 * SYMMETRIC_KEY_LENGTH_BYTES)

compute_session_keys(Ke, secure_session_context) ==
    LET keys == crypto_KDF(Ke, <<>>, Info_SessionKeys, 3 * SYMMETRIC_KEY_LENGTH_BYTES)
        c1 == [secure_session_context EXCEPT
                 !.i2r_key = Slice(keys, 0, SYMMETRIC_KEY_LENGTH_BYTES)]
        c2 == [c1 EXCEPT !.i2r = AESCCM(c1.i2r_key)]
        c3 == [c2 EXCEPT !.r2i_key = r2i_slice(keys)]
        c4 == [c3 EXCEPT !.r2i = AESCCM(c3.r2i_key)]
    IN  [c4 EXCEPT !.attestation_challenge =
           Slice(keys, 2 * SYMMETRIC_KEY_LENGTH_BYTES, 3 * SYMMETRIC_KEY_LENGTH_BYTES)]

----------------------------------------------------------------------------
(* The peer: a SPAKE2+ prover as the protocol defines it. *)

\* X = x * Generator + w0 * M
ProverShare(x, w0) == PointAdd(PointMul(x, Generator), PointMul(w0, M))

\* the prover's side of the shared points, from the verifier's share Y
ProverZ(x, w0, Y) ==
    PointMul(CurveCofactor * x, PointAdd(Y, PointNeg(PointMul(w0, N))))
ProverV(w1, w0, Y) ==
    PointMul(CurveCofactor * w1, PointAdd(Y, PointNeg(PointMul(w0, N))))

\* whether the prover can finish, and the (cA, cB, Ke) it derives
ProverCanFinish(x, w0, w1, pB) ==
    /\ CanDecode(pB)
    /\ CanEncode(ProverZ(x, w0, from_bytes(pB)))
    /\ CanEncode(ProverV(w1, w0, from_bytes(pB)))

ProverP2(context, pA, x, w0, w1, pB) ==
    LET Y == from_bytes(pB)
    IN  Crypto_P2(Crypto_Transcript(context, pA, pB,
                                    to_bytes_uncompressed(ProverZ(x, w0, Y)),
                                    to_bytes_uncompressed(ProverV(w1, w0, Y)),
                                    ToBytesBE(w0, baselen)),
                  pA, pB)

----------------------------------------------------------------------------
(* The exchange: two sessions of one device. *)

MaxX == 2
Sessions == DOMAIN ex.s
ExSalt == <<1, 2>>
ExIterations == 1
DevicePasscodes == {0, 20202021}
WrongPasscodes == {1, 2}

\* PAKE1 payloads that are no encoding of a curve point
CorruptedShares == {<<4, 0, 0>>, <<5, 2, 1>>, <<4, 2>>}

ContextOf(s) == <<80 + s>>

NewSession ==
    [pc |-> "wait1", kind |-> "none", ppass |-> 0, x |-> 0,
     pA |-> <<>>, pake2 |-> [pB |-> <<>>, cB |-> <<>>], wrote |-> {},
     draws |-> 0, y |-> 0, cA |-> <<>>, Ke |-> <<>>, tt |-> <<>>,
     cA_received |-> <<>>, prover |-> "none", prover_Ke |-> <<>>,
     ssc |-> NoContext]

ExInit(n) ==
    /\ \E passcode \in DevicePasscodes :
         /\ verifier_values_ok(passcode, ExSalt, ExIterations)
         /\ ex = [passcode |-> passcode,
                  verifier |-> verifier_values(passcode, ExSalt, ExIterations)[1]
                                 \o verifier_values(passcode, ExSalt, ExIterations)[2],
                  s |-> [i \in 1..n |-> NewSession]]
    /\ prov = Off /\ tr = Off /\ gk = Off
    /\ nt = Off /\ der = Off /\ cv = Off /\ zc = Off

\* the PAKE1 messages a peer may send: the share Crypto_pA gives ("code"), the
\* share of a prover holding the device passcode ("match") or another one
\* ("mismatch"), or bytes that decode to no point ("corrupt")
Pake1Choices ==
    {[kind |-> "code", ppass |-> ex.passcode, x |-> 0]}
      \cup {[kind |-> "match", ppass |-> ex.passcode, x |-> x] : x \in 1..MaxX}
      \cup {[kind |-> "mismatch", ppass |-> pw, x |-> x] : pw \in WrongPasscodes, x \in 1..MaxX}
      \cup {[kind |-> "corrupt", ppass |-> ex.passcode, x |-> 0]}

ProverW(passcode) == pbkdf2_w0w1(passcode, ExSalt, ExIterations)

Pake1Payloads(ch) ==
    IF ch.kind = "code"
    THEN {Crypto_pA(ProverW(ch.ppass)[1], ProverW(ch.ppass)[2])}
    ELSE IF ch.kind = "corrupt" THEN CorruptedShares
    ELSE {to_bytes_uncompressed(X) :
            X \in {ProverShare(ch.x, ProverW(ch.ppass)[1])} \ {INFINITY}}

\* the handler of PAKE1: compute_verification fills pake2
ExPake1(s) ==
    /\ ex.s[s].pc = "wait1"
    /\ \E ch \in Pake1Choices, y \in 0..(CurveOrder - 1) :
       \E pA \in Pake1Payloads(ch) :
       \E r \in {compute_verification(y, [pA |-> pA], ex.s[s].pake2,
                                      ContextOf(s), ex.verifier)} :
             ex' = [ex EXCEPT !.s[s] =
                      [@ EXCEPT !.pc = IF r.raised THEN "raised" ELSE "wait3",
                                !.kind = ch.kind, !.ppass = ch.ppass, !.x = ch.x,
                                !.pA = pA,
                                !.pake2 = [pB |-> r.pB, cB |-> r.cB],
                                !.wrote = r.wrote, !.draws = r.draws,
                                !.y = IF r.draws > 0 THEN y ELSE 0,
                                !.cA = r.cA, !.Ke = r.Ke, !.tt = r.tt]]
    /\ UNCHANGED <<prov, tr, gk, nt, der, cv, zc>>

\* what the prover makes of PAKE2: it cannot finish, or its (cA, cB, Ke)
ProverView(s) ==
    LET q == ex.s[s]
        w == ProverW(q.ppass)
    IN  IF ProverCanFinish(q.x, w[1], w[2], q.pake2.pB)
        THEN [can |-> TRUE,
              p2 |-> ProverP2(ContextOf(s), q.pA, q.x, w[1], w[2], q.pake2.pB)]
        ELSE [can |-> FALSE, p2 |-> <<<<>>, <<>>, <<>>>>]

\* the PAKE3 payloads a peer may send: the prover's own cA, the cB of PAKE2
\* sent back, or a constant
Pake3Choices(s, pv) ==
    {ex.s[s].pake2.cB, [i \in 1..HASH_LEN_BYTES |-> 0]}
      \cup (IF pv.can THEN {pv.p2[1]} ELSE {})

\* the handler of PAKE3: the received cA is compared with the one
\* compute_verification returned; the session keys are installed on a match
ExPake3(s) ==
    /\ ex.s[s].pc = "wait3"
    /\ \E pv \in {ProverView(s)} :
       \E cA \in Pake3Choices(s, pv) :
         LET q == ex.s[s]
             pr == IF ~pv.can THEN "failed"
                   ELSE IF pv.p2[2] = q.pake2.cB THEN "confirmed" ELSE "mismatch"
         IN  ex' = [ex EXCEPT !.s[s] =
                      [@ EXCEPT !.pc = IF cA = q.cA THEN "established" ELSE "aborted",
                                !.cA_received = cA,
                                !.prover = pr,
                                !.prover_Ke = pv.p2[3],
                                !.ssc = IF cA = q.cA
                                        THEN compute_session_keys(q.Ke, q.ssc)
                                        ELSE q.ssc]]
    /\ UNCHANGED <<prov, tr, gk, nt, der, cv, zc>>

ExPake1Step == \E s \in Sessions : ExPake1(s)
ExPake3Step == \E s \in Sessions : ExPake3(s)

ExNext == ExPake1Step \/ ExPake3Step

SpecPase == ExInit(1) /\ [][ExNext]_vars

SpecPasePair == ExInit(2) /\ [][ExNext]_vars

----------------------------------------------------------------------------
(* cm_ecdsa/rfc6979.py: generate_k.                                        *)
(*                                                                         *)
(* mode "det": hmac is the deterministic stand-in, and the candidates are  *)
(* recorded.  mode "stream": every HMAC output is an arbitrary digest (the *)
(* output stream the termination argument quantifies over).               *)

MaxOrder == 5
MaxStreamOrder == 2
MaxRetryGen == 2
MaxCandidates == 5

\* hash_func().digest_size of the stand-in hash
holen == 1

RECURSIVE bit_length(_)
bit_length(n) == IF n = 0 THEN 0 ELSE 1 + bit_length(n \div 2)

RECURSIVE Pow2(_)
Pow2(n) == IF n = 0 THEN 1 ELSE 2 * Pow2(n - 1)

\* util.orderlen: the number of bytes of "%x" % order
orderlen(order) == IF order = 0 THEN 1 ELSE (bit_length(order) + 7) \div 8

\* util.number_to_string / number_to_string_crop, for num that fits
number_to_string(num, order) == ToBytesBE(num, orderlen(order))

\* int(hexlify(b""), 16) raises ValueError
bits2int_ok(data) == data # <<>>
bits2int(data, qlen) ==
    LET x == FromBytesBE(data, 0)
        l == Len(data) * 8
    IN  IF l > qlen THEN x \div Pow2(l - qlen) ELSE x

bits2octets(data, order) ==
    LET z1 == bits2int(data, bit_length(order))
        z2 == IF z1 - order < 0 THEN z1 ELSE z1 - order
    IN  number_to_string(z2, order)

\* hmac.new(key, msg, hash_func).digest() of the stand-in hash
hmac_digest(key, msg) == Digest(5, <<Len(key)>> \o key \o msg, holen)

\* the digests whose leading qlen bits run over every qlen-bit value
StreamDigests(qlen) ==
    {[i \in 1..holen |-> IF i = 1 THEN c * Pow2(8 - qlen) ELSE 0] : c \in 0..(Pow2(qlen) - 1)}

HmacOut(mode, qlen, key, msg) ==
    IF mode = "det" THEN {hmac_digest(key, msg)} ELSE StreamDigests(qlen)

secret_in_range_incl(secret, order) == 1 <= secret /\ secret <= order
secret_in_range_excl(secret, order) == 1 < secret /\ secret < order
\* line 107: the candidate is accepted as in range
secret_in_range(secret, order) == 1 <= secret /\ secret < order

return_now_early(retry_gen) == retry_gen <= 1
\* line 108: an in-range candidate is returned rather than skipped
return_now(retry_gen) == retry_gen <= 0

\* line 112: the reseed marker byte
reseed_marker == <<0>>

GkCalls(m) == IF m = "det" THEN {1, 2} ELSE {1}

GkCall(order, secexp, data, extra, retry) ==
    [pc |-> "setup", order |-> order, secexp |-> secexp, data |-> data,
     extra |-> extra, retry0 |-> retry, retry_gen |-> retry,
     k |-> <<>>, v |-> <<>>, t |-> <<>>, result |-> 0,
     cands |-> <<>>, reseeds |-> 0, prek |-> <<>>, prev |-> <<>>]

GkData == {<<1>>, <<200, 7>>}
GkExtra == {<<>>, <<9>>}
GkOrders == 1..MaxOrder \cup {300}

\* two calls on the same (order, secexp, hash_func, data, extra_entropy)
GkInit ==
    /\ \E order \in GkOrders, data \in GkData, extra \in GkExtra :
       \E secexp \in {0, order - 1}, r \in [{1, 2} -> 0..MaxRetryGen] :
         gk = [mode |-> "det",
               c |-> [i \in {1, 2} |-> GkCall(order, secexp, data, extra, r[i])]]
    /\ prov = Off /\ tr = Off /\ ex = Off
    /\ nt = Off /\ der = Off /\ cv = Off /\ zc = Off

\* one call, any order from 0, under the arbitrary output stream
GkStreamInit ==
    /\ \E order \in 0..MaxStreamOrder, r \in 0..MaxRetryGen :
       \E secexp \in {0, IF order = 0 THEN 0 ELSE order - 1} :
         gk = [mode |-> "stream",
               c |-> [i \in {1} |-> GkCall(order, secexp, <<1>>, <<>>, r)]]
    /\ prov = Off /\ tr = Off /\ ex = Off
    /\ nt = Off /\ der = Off /\ cv = Off /\ zc = Off

qlen_of(g) == bit_length(g.order)
rolen_of(g) == (qlen_of(g) + 7) \div 8

\* lines 58-92: bx and steps B to G
GkSetup(c) ==
    /\ gk.c[c].pc = "setup"
    /\ LET g  == gk.c[c]
           bx == number_to_string(g.secexp, g.order) \o bits2octets(g.data, g.order)
                   \o g.extra
           v0 == [i \in 1..holen |-> 1]
           k0 == [i \in 1..holen |-> 0]
       IN  \E k1 \in HmacOut(gk.mode, qlen_of(g), k0, v0 \o <<0>> \o bx) :
           \E v1 \in HmacOut(gk.mode, qlen_of(g), k1, v0) :
           \E k2 \in HmacOut(gk.mode, qlen_of(g), k1, v1 \o <<1>> \o bx) :
           \E v2 \in HmacOut(gk.mode, qlen_of(g), k2, v1) :
             gk' = [gk EXCEPT !.c[c].pc = "H2", !.c[c].k = k2, !.c[c].v = v2,
                              !.c[c].t = <<>>]
    /\ UNCHANGED <<prov, tr, ex, nt, der, cv, zc>>

\* lines 100-102: one iteration of the inner loop of step H2
GkH2(c) ==
    /\ gk.c[c].pc = "H2"
    /\ Len(gk.c[c].t) < rolen_of(gk.c[c])
    /\ gk.mode = "det" => Len(gk.c[c].cands) < MaxCandidates
    /\ LET g == gk.c[c]
       IN  \E d \in HmacOut(gk.mode, qlen_of(g), g.k, g.v) :
             gk' = [gk EXCEPT !.c[c].v = d, !.c[c].t = g.t \o d]
    /\ UNCHANGED <<prov, tr, ex, nt, der, cv, zc>>

\* lines 105-110: step H3 and the acceptance test
GkH3(c) ==
    /\ gk.c[c].pc = "H2"
    /\ Len(gk.c[c].t) >= rolen_of(gk.c[c])
    /\ LET g == gk.c[c]
           secret == bits2int(g.t, qlen_of(g))
           seen == IF gk.mode = "det" THEN Append(g.cands, secret) ELSE g.cands
       IN  IF ~bits2int_ok(g.t)
           THEN gk' = [gk EXCEPT !.c[c].pc = "raised"]
           ELSE IF secret_in_range(secret, g.order)
           THEN IF return_now(g.retry_gen)
                THEN gk' = [gk EXCEPT !.c[c].pc = "done", !.c[c].result = secret,
                                      !.c[c].cands = seen]
                ELSE gk' = [gk EXCEPT !.c[c].pc = "reseed", !.c[c].cands = seen,
                                      !.c[c].retry_gen = g.retry_gen - 1]
           ELSE gk' = [gk EXCEPT !.c[c].pc = "reseed", !.c[c].cands = seen]
    /\ UNCHANGED <<prov, tr, ex, nt, der, cv, zc>>

\* lines 112-113, then line 97 of the next iteration
GkReseed(c) ==
    /\ gk.c[c].pc = "reseed"
    /\ LET g == gk.c[c]
       IN  \E k1 \in HmacOut(gk.mode, qlen_of(g), g.k, g.v \o reseed_marker) :
           \E v1 \in HmacOut(gk.mode, qlen_of(g), k1, g.v) :
             gk' = [gk EXCEPT !.c[c].pc = "H2", !.c[c].k = k1, !.c[c].v = v1,
                              !.c[c].t = <<>>,
                              !.c[c].reseeds = IF gk.mode = "det" THEN g.reseeds + 1 ELSE 0,
                              !.c[c].prek = IF gk.mode = "det" THEN g.k ELSE <<>>,
                              !.c[c].prev = IF gk.mode = "det" THEN g.v ELSE <<>>]
    /\ UNCHANGED <<prov, tr, ex, nt, der, cv, zc>>

GkSetupStep == \E c \in GkCalls(gk.mode) : GkSetup(c)
GkH2Step == \E c \in GkCalls(gk.mode) : GkH2(c)
GkH3Step == \E c \in GkCalls(gk.mode) : GkH3(c)
GkReseedStep == \E c \in GkCalls(gk.mode) : GkReseed(c)

GkNext == GkSetupStep \/ GkH2Step \/ GkH3Step \/ GkReseedStep

SpecGenK == GkInit /\ [][GkNext]_vars

\* the stream is fair: every candidate value keeps being produced
GkProduces(cand) ==
    GkH2(1) /\ Len(gk'.c[1].t) >= rolen_of(gk.c[1])
            /\ bits2int(gk'.c[1].t, qlen_of(gk.c[1])) = cand

SpecGenKFair ==
    /\ GkStreamInit /\ [][GkNext]_vars
    /\ WF_vars(GkNext)
    /\ \A cand \in 0..(Pow2(bit_length(MaxStreamOrder)) - 1) : SF_vars(GkProduces(cand))

----------------------------------------------------------------------------
(* cm_ecdsa/numbertheory.py.  Each call is one action on nt: the          *)
(* arguments are drawn at Init and the action stores what the call does.  *)

MaxPrime == 41
MaxModulus == 12

\* the primes the arguments are drawn from
IsPrimeRef(n) == n >= 2 /\ \A d \in 2..(n - 1) : n % d # 0

NtCall(fn, a, m) == [fn |-> fn, pc |-> "call", a |-> a, m |-> m, out |-> [raised |-> "pending"]]
NtReturn(v) == [raised |-> "none", value |-> v]
NtRaise(e) == [raised |-> e]

RECURSIVE polynomial_reduce_mod(_, _, _)
\* poly[-i] is poly[n - i + 1]; the loop drops the leading coefficient
polynomial_reduce_mod(poly, polymod, p) ==
    IF Len(poly) < Len(polymod) THEN poly
    ELSE LET n == Len(poly)
             m == Len(polymod)
             top == poly[n]
             reduced == [k \in 1..n |->
                           IF top # 0 /\ k <= n - 1 /\ k >= n - m + 1
                           THEN (poly[k] - top * polymod[m - n + k]) % p
                           ELSE poly[k]]
         IN  polynomial_reduce_mod(SubSeq(reduced, 1, n - 1), polymod, p)

RECURSIVE CrossTerms(_, _, _, _, _)
\* the sum of m1[i] * m2[j] over i + j = k (0-based), reduced modulo p
CrossTerms(m1, m2, k, i, p) ==
    IF i > Len(m1) THEN 0
    ELSE LET j == k - (i - 1) + 1
             term == IF j >= 1 /\ j <= Len(m2) THEN m1[i] * m2[j] ELSE 0
         IN  (CrossTerms(m1, m2, k, i + 1, p) + term) % p

polynomial_multiply_mod(m1, m2, polymod, p) ==
    polynomial_reduce_mod([k \in 1..(Len(m1) + Len(m2) - 1) |->
                              CrossTerms(m1, m2, k - 1, 1, p)], polymod, p)

RECURSIVE PolyExpLoop(_, _, _, _, _)
\* lines 112-116
PolyExpLoop(G, s, k, polymod, p) ==
    IF k > 1
    THEN LET k2 == k \div 2
             G2 == polynomial_multiply_mod(G, G, polymod, p)
         IN  PolyExpLoop(G2,
                         IF k2 % 2 = 1 THEN polynomial_multiply_mod(G2, s, polymod, p) ELSE s,
                         k2, polymod, p)
    ELSE s

polynomial_exp_mod(base, exponent, polymod, p) ==
    IF exponent = 0 THEN <<1>>
    ELSE PolyExpLoop(base, IF exponent % 2 = 1 THEN base ELSE <<1>>, exponent, polymod, p)

RECURSIVE OddPart(_)
OddPart(a) == IF a % 2 = 0 THEN OddPart(a \div 2) ELSE a
RECURSIVE TwoExp(_)
TwoExp(a) == IF a % 2 = 0 THEN 1 + TwoExp(a \div 2) ELSE 0

\* line 148: quadratic reciprocity flips the sign
jacobi_flip(n, a1) == n % 4 = 3 /\ a1 % 4 = 3

RECURSIVE jacobi(_, _)
\* for n odd and at least 3 (the calls here satisfy it)
jacobi(a0, n) ==
    LET a == a0 % n
    IN  IF a = 0 THEN 0
        ELSE IF a = 1 THEN 1
        ELSE LET a1 == OddPart(a)
                 e  == TwoExp(a)
                 s  == IF e % 2 = 0 \/ n % 8 = 1 \/ n % 8 = 7 THEN 1 ELSE -1
             IN  IF a1 = 1 THEN s
                 ELSE (IF jacobi_flip(n, a1) THEN -s ELSE s) * jacobi(n % a1, a1)

RECURSIVE FirstB(_, _, _)
\* line 184-185: the first b of range(2, p) with jacobi(b*b - 4*a, p) = -1,
\* or p when there is none
FirstB(a, p, b) ==
    IF b >= p THEN p
    ELSE IF jacobi(b * b - 4 * a, p) = -1 THEN b ELSE FirstB(a, p, b + 1)

root_exp_5mod8_off(p) == (p + 1) \div 8
\* line 179: the exponent of the root when a^((p-1)/4) = 1
root_exp_5mod8(p) == (p + 3) \div 8

\* for 0 <= a < p and 1 < p
square_root_mod_prime(a, p) ==
    IF a = 0 THEN NtReturn(0)
    ELSE IF p = 2 THEN NtReturn(a)
    ELSE IF jacobi(a, p) = -1 THEN NtRaise("SquareRootError")
    ELSE IF p % 4 = 3 THEN NtReturn(PowMod(a, (p + 1) \div 4, p))
    ELSE IF p % 8 = 5
    THEN LET d == PowMod(a, (p - 1) \div 4, p)
         IN  IF d = 1 THEN NtReturn(PowMod(a, root_exp_5mod8(p), p))
             ELSE IF d # p - 1 THEN NtRaise("AssertionError")
             ELSE NtReturn((2 * a * PowMod(4 * a, (p - 5) \div 8, p)) % p)
    ELSE LET b == FirstB(a, p, 2)
         IN  IF b >= p THEN NtRaise("RuntimeError")
             ELSE LET ff == polynomial_exp_mod(<<0, 1>>, (p + 1) \div 2, <<a, -b, 1>>, p)
                  IN  IF ff[2] # 0 THEN NtRaise("SquareRootError")
                      ELSE NtReturn(ff[1])

SqrtInit ==
    /\ \E p \in {q \in 2..MaxPrime : IsPrimeRef(q)} : \E a \in 0..(p - 1) :
          nt = NtCall("square_root_mod_prime", a, p)
    /\ prov = Off /\ tr = Off /\ gk = Off /\ ex = Off /\ der = Off /\ cv = Off /\ zc = Off

NtSqrt ==
    /\ nt.pc = "call" /\ nt.fn = "square_root_mod_prime"
    /\ nt' = [nt EXCEPT !.pc = "done", !.out = square_root_mod_prime(nt.a, nt.m)]
    /\ UNCHANGED <<prov, tr, gk, ex, der, cv, zc>>

SpecSqrt == SqrtInit /\ [][NtSqrt]_vars

\* inverse_mod, one loop iteration per step
InvInit ==
    /\ \E m \in 1..MaxModulus, a \in (0 - MaxModulus)..(2 * MaxModulus) :
          nt = [fn |-> "inverse_mod", pc |-> "call", a |-> a, m |-> m,
                lm |-> 0, hm |-> 0, low |-> 0, high |-> 0,
                out |-> [raised |-> "pending"]]
    /\ prov = Off /\ tr = Off /\ gk = Off /\ ex = Off /\ der = Off /\ cv = Off /\ zc = Off

\* line 200: the argument is 0
a_is_zero(a, m) == a = 0

\* lines 200-204
NtInvEnter ==
    /\ nt.fn = "inverse_mod" /\ nt.pc = "call"
    /\ IF a_is_zero(nt.a, nt.m)
       THEN nt' = [nt EXCEPT !.pc = "done", !.out = NtReturn(0)]
       ELSE nt' = [nt EXCEPT !.pc = "loop", !.lm = 1, !.hm = 0,
                             !.low = nt.a % nt.m, !.high = nt.m]
    /\ UNCHANGED <<prov, tr, gk, ex, der, cv, zc>>

inv_next_lm_sum(lm, hm, r) == hm + lm * r
\* line 207: the new lm
inv_next_lm(lm, hm, r) == hm - lm * r

\* lines 205-207: one iteration
NtInvLoop ==
    /\ nt.fn = "inverse_mod" /\ nt.pc = "loop"
    /\ nt.low > 1
    /\ IF nt.low = 0
       THEN nt' = [nt EXCEPT !.pc = "done", !.out = NtRaise("ZeroDivisionError")]
       ELSE LET r == nt.high \div nt.low
            IN  nt' = [nt EXCEPT !.lm = inv_next_lm(nt.lm, nt.hm, r),
                                 !.low = nt.high - nt.low * r,
                                 !.hm = nt.lm, !.high = nt.low]
    /\ UNCHANGED <<prov, tr, gk, ex, der, cv, zc>>

\* line 209
NtInvExit ==
    /\ nt.fn = "inverse_mod" /\ nt.pc = "loop"
    /\ ~(nt.low > 1)
    /\ nt' = [nt EXCEPT !.pc = "done", !.out = NtReturn(nt.lm % nt.m)]
    /\ UNCHANGED <<prov, tr, gk, ex, der, cv, zc>>

InvNext == NtInvEnter \/ NtInvLoop \/ NtInvExit

SpecInv == InvInit /\ [][InvNext]_vars

\* the interpreter keeps running the call
SpecInvFair == SpecInv /\ WF_vars(InvNext)

----------------------------------------------------------------------------
(* Two runs of compute_verification, interleaved statement by statement.  *)
(* Each run has its own pake1, pake2 and context; M, N and the verifier   *)
(* bytes are the objects both runs read.                                  *)

Runs == {1, 2}

frame_shared(i) == 1
\* line 198: the locals of a call live in the frame of that call
frame_of(i) == i

NewFrame ==
    [w0 |-> 0, L |-> INFINITY, y |-> 0, Y |-> INFINITY, X |-> INFINITY,
     Z |-> INFINITY, V |-> INFINITY, tt |-> <<>>, cA |-> <<>>, cB |-> <<>>,
     Ke |-> <<>>]

\* the PAKE1 payloads of the two peers
CvShares ==
    {to_bytes_uncompressed(ProverShare(1, ProverW(20202021)[1])),
     to_bytes_uncompressed(ProverShare(2, ProverW(1)[1])),
     <<4, 0, 0>>}

CvInit ==
    /\ \E pA \in [Runs -> CvShares] :
         cv = [shared |-> [M |-> M, N |-> N,
                           verifier |-> verifier_values(20202021, ExSalt, ExIterations)[1]
                                          \o verifier_values(20202021, ExSalt, ExIterations)[2]],
               pake1 |-> [i \in Runs |-> [pA |-> pA[i]]],
               pake2 |-> [i \in Runs |-> [pB |-> <<>>, cB |-> <<>>]],
               pc |-> [i \in Runs |-> "199"],
               frame |-> [i \in Runs |-> NewFrame],
               y |-> [i \in Runs |-> 0],
               out |-> [i \in Runs |-> <<>>],
               writes |-> {}]
    /\ prov = Off /\ tr = Off /\ gk = Off /\ ex = Off /\ nt = Off /\ der = Off /\ zc = Off

CvFrame(i) == cv.frame[frame_of(i)]
CvSet(i, field, value) == [cv.frame EXCEPT ![frame_of(i)][field] = value]

\* lines 199-202
CvDecodeVerifier(i) ==
    /\ cv.pc[i] = "199"
    /\ LET Lb == Slice(cv.shared.verifier, GROUP_SIZE_BYTES, Len(cv.shared.verifier))
           w0 == FromBytesBE(Slice(cv.shared.verifier, 0, GROUP_SIZE_BYTES), 0)
       IN  IF ~CanDecode(Lb)
           THEN cv' = [cv EXCEPT !.pc[i] = "raised"]
           ELSE cv' = [cv EXCEPT !.pc[i] = "203",
                         !.frame = [cv.frame EXCEPT ![frame_of(i)].L = from_bytes(Lb),
                                                    ![frame_of(i)].w0 = w0]]
    /\ UNCHANGED <<prov, tr, gk, ex, nt, der, zc>>

\* line 203: Crypto_pB draws y and computes Y
CvDraw(i) ==
    /\ cv.pc[i] = "203"
    /\ \E y \in 0..(CurveOrder - 1) :
         cv' = [cv EXCEPT !.pc[i] = "206", !.y[i] = y,
                  !.frame = [cv.frame EXCEPT
                     ![frame_of(i)].y = y,
                     ![frame_of(i)].Y = PointAdd(PointMul(y, Generator),
                                                 PointMul(CvFrame(i).w0, cv.shared.N))]]
    /\ UNCHANGED <<prov, tr, gk, ex, nt, der, zc>>

\* line 206
CvWritePB(i) ==
    /\ cv.pc[i] = "206"
    /\ IF ~CanEncode(CvFrame(i).Y)
       THEN cv' = [cv EXCEPT !.pc[i] = "raised"]
       ELSE cv' = [cv EXCEPT !.pc[i] = "209",
                     !.pake2[i].pB = to_bytes_uncompressed(CvFrame(i).Y),
                     !.writes = @ \cup {<<i, "pake2", i, "pB">>}]
    /\ UNCHANGED <<prov, tr, gk, ex, nt, der, zc>>

\* lines 207-209
CvDecodeShare(i) ==
    /\ cv.pc[i] = "209"
    /\ IF ~CanDecode(cv.pake1[i].pA)
       THEN cv' = [cv EXCEPT !.pc[i] = "raised"]
       ELSE cv' = [cv EXCEPT !.pc[i] = "210",
                     !.frame = CvSet(i, "X", from_bytes(cv.pake1[i].pA))]
    /\ UNCHANGED <<prov, tr, gk, ex, nt, der, zc>>

\* lines 210-212
CvSharedPoints(i) ==
    /\ cv.pc[i] = "210"
    /\ LET f == CvFrame(i)
           h == CurveCofactor
       IN  cv' = [cv EXCEPT !.pc[i] = "213",
                    !.frame = [cv.frame EXCEPT
                       ![frame_of(i)].Z = PointMul(h * f.y,
                                             PointAdd(f.X, PointNeg(PointMul(f.w0, cv.shared.M)))),
                       ![frame_of(i)].V = PointMul(h * f.y, f.L)]]
    /\ UNCHANGED <<prov, tr, gk, ex, nt, der, zc>>

\* lines 213-220
CvTranscript(i) ==
    /\ cv.pc[i] = "213"
    /\ LET f == CvFrame(i)
       IN  IF ~CanEncode(f.Z) \/ ~CanEncode(f.V)
           THEN cv' = [cv EXCEPT !.pc[i] = "raised"]
           ELSE cv' = [cv EXCEPT !.pc[i] = "221",
                         !.frame = CvSet(i, "tt",
                            Crypto_Transcript(ContextOf(i), cv.pake1[i].pA, cv.pake2[i].pB,
                                              to_bytes_uncompressed(f.Z),
                                              to_bytes_uncompressed(f.V),
                                              ToBytesBE(f.w0, baselen)))]
    /\ UNCHANGED <<prov, tr, gk, ex, nt, der, zc>>

\* line 221
CvP2(i) ==
    /\ cv.pc[i] = "221"
    /\ \E P2 \in {Crypto_P2(CvFrame(i).tt, cv.pake1[i].pA, cv.pake2[i].pB)} :
         cv' = [cv EXCEPT !.pc[i] = "222",
                  !.frame = [cv.frame EXCEPT ![frame_of(i)].cA = P2[1],
                                             ![frame_of(i)].cB = P2[2],
                                             ![frame_of(i)].Ke = P2[3]]]
    /\ UNCHANGED <<prov, tr, gk, ex, nt, der, zc>>

\* line 222
CvWriteCB(i) ==
    /\ cv.pc[i] = "222"
    /\ cv' = [cv EXCEPT !.pc[i] = "223", !.pake2[i].cB = CvFrame(i).cB,
                        !.writes = @ \cup {<<i, "pake2", i, "cB">>}]
    /\ UNCHANGED <<prov, tr, gk, ex, nt, der, zc>>

\* line 223
CvReturn(i) ==
    /\ cv.pc[i] = "223"
    /\ cv' = [cv EXCEPT !.pc[i] = "returned",
                        !.out[i] = <<CvFrame(i).cA, CvFrame(i).Ke>>]
    /\ UNCHANGED <<prov, tr, gk, ex, nt, der, zc>>

CvDecodeVerifierStep == \E i \in Runs : CvDecodeVerifier(i)
CvDrawStep == \E i \in Runs : CvDraw(i)
CvWritePBStep == \E i \in Runs : CvWritePB(i)
CvDecodeShareStep == \E i \in Runs : CvDecodeShare(i)
CvSharedPointsStep == \E i \in Runs : CvSharedPoints(i)
CvTranscriptStep == \E i \in Runs : CvTranscript(i)
CvP2Step == \E i \in Runs : CvP2(i)
CvWriteCBStep == \E i \in Runs : CvWriteCB(i)
CvReturnStep == \E i \in Runs : CvReturn(i)

CvNext ==
    \/ CvDecodeVerifierStep \/ CvDrawStep \/ CvWritePBStep \/ CvDecodeShareStep
    \/ CvSharedPointsStep \/ CvTranscriptStep \/ CvP2Step \/ CvWriteCBStep
    \/ CvReturnStep

SpecCv == CvInit /\ [][CvNext]_vars

----------------------------------------------------------------------------
(* circuitmatter/cm_der.py: encode_bitstring and encode_length. *)

MaxDerLen == 2

\* the byte strings encoded: every short string over a few byte values, and
\* long strings around the lengths where encode_length changes form
DerBytes == {0, 6, 128, 255}
DerLongLens == {126, 127, 128, 255, 256}
DerStrings ==
    UNION {[1..n -> DerBytes] : n \in 0..MaxDerLen}
      \cup {[i \in 1..n |-> 8] : n \in DerLongLens}

\* the values passed as unused: None, or an integer v
DerNone == [none |-> TRUE, v |-> 0]
DerInt(v) == [none |-> FALSE, v |-> v]
DerUnused == {DerNone} \cup {DerInt(v) : v \in (0 - 2)..9}

int2byte(i) == <<i>>

RECURSIVE HexBytes(_)
\* binascii.unhexlify of the even-length hexadecimal form of l
HexBytes(l) == IF l < 256 THEN <<l>> ELSE Append(HexBytes(l \div 256), l % 256)

encode_length(l) ==
    IF l < 128 THEN int2byte(l)
    ELSE int2byte(128 + Len(HexBytes(l))) \o HexBytes(l)

\* line 65: 0 <= unused <= 7 compares None with an int, which raises
\* TypeError; no branch of the function treats None apart
encode_bitstring(s, unused) ==
    IF unused.none THEN NtRaise("TypeError")
    ELSE IF ~(0 <= unused.v /\ unused.v <= 7) THEN NtRaise("ValueError")
    ELSE IF unused.v # 0 /\ s = <<>> THEN NtRaise("ValueError")
    ELSE IF unused.v # 0 /\ s[Len(s)] % Pow2(unused.v) # 0 THEN NtRaise("ValueError")
    ELSE LET encoded_unused == int2byte(unused.v)
             len_extra == 1
         IN  NtReturn(<<3>> \o encode_length(Len(s) + len_extra) \o encoded_unused \o s)

DerInit ==
    /\ \E s \in DerStrings, unused \in DerUnused :
          der = [pc |-> "call", s |-> s, unused |-> unused,
                 out |-> [raised |-> "pending"]]
    /\ prov = Off /\ tr = Off /\ gk = Off /\ ex = Off /\ nt = Off /\ cv = Off /\ zc = Off

DerEncodeBitstring ==
    /\ der.pc = "call"
    /\ der' = [der EXCEPT !.pc = "done", !.out = encode_bitstring(der.s, der.unused)]
    /\ UNCHANGED <<prov, tr, gk, ex, nt, cv, zc>>

SpecDer == DerInit /\ [][DerEncodeBitstring]_vars

----------------------------------------------------------------------------
(* Crypto_Transcript on two argument tuples. *)

MaxInjLen == 1

\* the strings of one byte value up to a length
Repeats(byte, n) == {[i \in 1..k |-> byte] : k \in 0..n}

\* argument tuples (context, pA, pB, Z, V, w0): the first four vary in length,
\* the last two also in content
TrPairArgs ==
    {<<c, pA, pB, Z, V, w0>> :
        c \in Repeats(97, MaxInjLen), pA \in Repeats(97, MaxInjLen),
        pB \in Repeats(97, MaxInjLen), Z \in Repeats(97, MaxInjLen),
        V \in {<<97>>, <<98>>}, w0 \in {<<97>>, <<97, 97>>}}

TrPairInit ==
    /\ \E a \in TrPairArgs, b \in TrPairArgs :
          tr = [pc |-> "pair", a |-> a, b |-> b, ta |-> <<>>, tb |-> <<>>]
    /\ prov = Off /\ gk = Off /\ ex = Off
    /\ nt = Off /\ der = Off /\ cv = Off /\ zc = Off

TrPairBuild ==
    /\ tr.pc = "pair"
    /\ tr' = [tr EXCEPT !.pc = "paired",
                !.ta = Crypto_Transcript(tr.a[1], tr.a[2], tr.a[3], tr.a[4], tr.a[5], tr.a[6]),
                !.tb = Crypto_Transcript(tr.b[1], tr.b[2], tr.b[3], tr.b[4], tr.b[5], tr.b[6])]
    /\ UNCHANGED <<prov, gk, ex, nt, der, cv, zc>>

SpecTrPair == TrPairInit /\ [][TrPairBuild]_vars


\* is_prime
MaxIsPrimeN == 1260

\* lines 358-560
smallprimes ==
    {2, 3, 5, 7, 11, 13, 17, 19, 23, 29, 31, 37,
     41, 43, 47, 53, 59, 61, 67, 71, 73, 79, 83, 89,
     97, 101, 103, 107, 109, 113, 127, 131, 137, 139, 149, 151,
     157, 163, 167, 173, 179, 181, 191, 193, 197, 199, 211, 223,
     227, 229, 233, 239, 241, 251, 257, 263, 269, 271, 277, 281,
     283, 293, 307, 311, 313, 317, 331, 337, 347, 349, 353, 359,
     367, 373, 379, 383, 389, 397, 401, 409, 419, 421, 431, 433,
     439, 443, 449, 457, 461, 463, 467, 479, 487, 491, 499, 503,
     509, 521, 523, 541, 547, 557, 563, 569, 571, 577, 587, 593,
     599, 601, 607, 613, 617, 619, 631, 641, 643, 647, 653, 659,
     661, 673, 677, 683, 691, 701, 709, 719, 727, 733, 739, 743,
     751, 757, 761, 769, 773, 787, 797, 809, 811, 821, 823, 827,
     829, 839, 853, 857, 859, 863, 877, 881, 883, 887, 907, 911,
     919, 929, 937, 941, 947, 953, 967, 971, 977, 983, 991, 997,
     1009, 1013, 1019, 1021, 1031, 1033, 1039, 1049, 1051, 1061, 1063, 1069,
     1087, 1091, 1093, 1097, 1103, 1109, 1117, 1123, 1129, 1151, 1153, 1163,
     1171, 1181, 1187, 1193, 1201, 1213, 1217, 1223, 1229}

\* the largest entry, smallprimes[-1]
smallprimes_last == 1229

\* the names bound in the module when is_prime runs: its imports, classes,
\* functions and globals (lines 18-563); gcd is not among them
ModuleNames ==
    {"sys", "math", "random", "Error", "JacobiError", "SquareRootError",
     "NegativeExponentError", "polynomial_reduce_mod", "polynomial_multiply_mod",
     "polynomial_exp_mod", "jacobi", "square_root_mod_prime", "inverse_mod",
     "factorization", "is_prime", "next_prime", "smallprimes",
     "miller_rabin_test_count"}

\* looking a global name up: NameError when the module does not bind it
LookupGlobal(name) == IF name \in ModuleNames THEN "none" ELSE "NameError"

\* is_prime(n): what the call does, the number t of rounds it chose and the
\* bases it drew.  Line 295 calls gcd, a name the module does not bind, so
\* every call that gets past the table raises NameError there and lines
\* 298-344 never run
is_prime(n) ==
    IF n <= smallprimes_last
    THEN [out |-> NtReturn(n \in smallprimes), t |-> 0, bases |-> {}]
    ELSE [out |-> NtRaise(LookupGlobal("gcd")), t |-> 0, bases |-> {}]

IsPrimeInit ==
    /\ \E n \in (0 - 2)..MaxIsPrimeN :
          nt = [fn |-> "is_prime", pc |-> "call", a |-> n, t |-> 0, bases |-> {},
                out |-> [raised |-> "pending"]]
    /\ prov = Off /\ tr = Off /\ gk = Off /\ ex = Off /\ der = Off /\ cv = Off /\ zc = Off

NtIsPrime ==
    /\ nt.fn = "is_prime" /\ nt.pc = "call"
    /\ nt' = [nt EXCEPT !.pc = "done", !.out = is_prime(nt.a).out,
                        !.t = is_prime(nt.a).t, !.bases = is_prime(nt.a).bases]
    /\ UNCHANGED <<prov, tr, gk, ex, der, cv, zc>>

SpecIsPrime == IsPrimeInit /\ [][NtIsPrime]_vars

----------------------------------------------------------------------------
(* utility/mdns/zeroconf.py: the ZeroConf wrapper.  Python values carry    *)
(* their type, strings are sequences of characters, a dict is the sequence *)
(* of its items in insertion order, and a ServiceInfo is known by its      *)
(* identity (the order of construction).                                   *)

MaxCalls == 2

PyStr(s) == [ty |-> "str", v |-> s]
PyList(s) == [ty |-> "list", v |-> s]

\* str + str and list + list concatenate; a list and a str do not add
PyAdd(a, b) ==
    IF a.ty = b.ty
    THEN [raised |-> "none", value |-> [ty |-> a.ty, v |-> a.v \o b.v]]
    ELSE [raised |-> "TypeError"]

\* d[key] = value: an existing key keeps its position and takes the new value
DictSet(d, key, value) ==
    IF \E i \in 1..Len(d) : d[i].key = key
    THEN [i \in 1..Len(d) |-> IF d[i].key = key THEN [key |-> key, value |-> value]
                                                 ELSE d[i]]
    ELSE Append(d, [key |-> key, value |-> value])

DictValues(d) == [i \in 1..Len(d) |-> d[i].value]

\* the Zeroconf instance: the services it holds and what it was asked to do
Zeroconf == [services |-> {}, log |-> <<>>, closed |-> FALSE]

register_service(z, info) ==
    [z EXCEPT !.services = @ \cup {info}, !.log = Append(@, [op |-> "register", info |-> info])]

unregister_service(z, info) ==
    [z EXCEPT !.services = @ \ {info}, !.log = Append(@, [op |-> "unregister", info |-> info])]

close(z) ==
    [z EXCEPT !.closed = TRUE, !.log = Append(@, [op |-> "close", info |-> 0])]

ServiceTypes == {PyStr(<<"a">>), PyStr(<<"a", "b">>)}
InstanceNames == {PyStr(<<>>), PyStr(<<"c">>), PyStr(<<"b", "c">>)}
DefaultSubtypes == PyList(<<>>)
SubtypesArgs == {DefaultSubtypes, PyStr(<<"a">>), PyStr(<<"s">>)}

\* lines 24-44; an exception leaves the method at the line that raised
advertise_service(self, service_type, subtypes, instance_name) ==
    LET main_info == self.made + 1
        sub_info == self.made + 2
        made == [self EXCEPT !.made = sub_info, !.raised = "none"]
        reg1 == [made EXCEPT !.zeroconf = register_service(@, main_info)]
        reg2 == [reg1 EXCEPT !.zeroconf = register_service(@, sub_info)]
        key1 == PyAdd(service_type, instance_name)
        set1 == [reg2 EXCEPT !.service_infos = DictSet(@, key1.value, main_info)]
        key2 == PyAdd(subtypes, instance_name)
        set2 == [set1 EXCEPT !.service_infos = DictSet(@, key2.value, sub_info)]
    IN  IF key1.raised # "none" THEN [reg2 EXCEPT !.raised = key1.raised]
        ELSE IF key2.raised # "none" THEN [set1 EXCEPT !.raised = key2.raised]
        ELSE set2

ZcInit ==
    /\ zc = [pc |-> "live", zeroconf |-> Zeroconf, service_infos |-> <<>>,
             made |-> 0, raised |-> "none", at |-> 0]
    /\ prov = Off /\ tr = Off /\ gk = Off /\ ex = Off /\ nt = Off /\ der = Off /\ cv = Off

ZcAdvertise ==
    /\ zc.pc = "live" /\ zc.made < 2 * MaxCalls
    /\ \E service_type \in ServiceTypes, subtypes \in SubtypesArgs,
          instance_name \in InstanceNames :
          zc' = advertise_service(zc, service_type, subtypes, instance_name)
    /\ UNCHANGED <<prov, tr, gk, ex, nt, der, cv>>

\* __del__, line 47: the iteration over service_infos.values() starts
ZcDel ==
    /\ zc.pc = "live"
    /\ zc' = [zc EXCEPT !.pc = "del", !.at = 1]
    /\ UNCHANGED <<prov, tr, gk, ex, nt, der, cv>>

ZcDelUnregister ==
    /\ zc.pc = "del" /\ zc.at <= Len(zc.service_infos)
    /\ zc' = [zc EXCEPT !.zeroconf = unregister_service(@, DictValues(zc.service_infos)[zc.at]),
                        !.at = @ + 1]
    /\ UNCHANGED <<prov, tr, gk, ex, nt, der, cv>>

ZcDelClose ==
    /\ zc.pc = "del" /\ zc.at > Len(zc.service_infos)
    /\ zc' = [zc EXCEPT !.zeroconf = close(@), !.pc = "closed"]
    /\ UNCHANGED <<prov, tr, gk, ex, nt, der, cv>>

ZcNext == ZcAdvertise \/ ZcDel \/ ZcDelUnregister \/ ZcDelClose

SpecZc == ZcInit /\ [][ZcNext]_vars

----------------------------------------------------------------------------
(* Properties of the parameter derivation and of the transcript. *)

ProvW0 ==
    FromBytesBEMod(SubSeq(pbkdf2_hmac(ToBytesLE(prov.passcode, 4), prov.salt,
                                      prov.iterations, 2 * W_SIZE_BYTES),
                          1, W_SIZE_BYTES), CurveOrder, 0)
ProvW1 ==
    FromBytesBEMod(SubSeq(pbkdf2_hmac(ToBytesLE(prov.passcode, 4), prov.salt,
                                      prov.iterations, 2 * W_SIZE_BYTES),
                          W_SIZE_BYTES + 1, 2 * W_SIZE_BYTES), CurveOrder, 0)

LenPrefix(n) ==
    <<n % 256, (n \div 256) % 256, (n \div 65536) % 256, (n \div 16777216) % 256,
      0, 0, 0, 0>>

TrExpected ==
    LET a  == tr.args
        eM == to_bytes_uncompressed(M)
        eN == to_bytes_uncompressed(N)
    IN  LenPrefix(Len(a[1])) \o a[1] \o LenPrefix(0) \o LenPrefix(0)
          \o LenPrefix(Len(eM)) \o eM \o LenPrefix(Len(eN)) \o eN
          \o LenPrefix(Len(a[2])) \o a[2] \o LenPrefix(Len(a[3])) \o a[3]
          \o LenPrefix(Len(a[4])) \o a[4] \o LenPrefix(Len(a[5])) \o a[5]
          \o LenPrefix(Len(a[6])) \o a[6]

\* C4: Crypto_Transcript returns the concatenation of context, empty, empty,
\* encoded M, encoded N, pA, pB, Z, V, w0, each after its length as 8 bytes
\* little-endian; the length is 80 plus the ten element lengths, and every
\* byte of the buffer is written exactly once
C4_TranscriptExact ==
    /\ tr.pc # "error"
    /\ tr.pc = "done" =>
          /\ tr.tt = TrExpected
          /\ Len(tr.tt) = 80 + Len(tr.args[1]) + 0 + 0 + Len(to_bytes_uncompressed(M))
                             + Len(to_bytes_uncompressed(N)) + Len(tr.args[2])
                             + Len(tr.args[3]) + Len(tr.args[4]) + Len(tr.args[5])
                             + Len(tr.args[6])
          /\ Len(tr.wr) = Len(tr.tt)
          /\ \A i \in 1..Len(tr.wr) : tr.wr[i] = 1
          /\ tr.tt = Crypto_Transcript(tr.args[1], tr.args[2], tr.args[3],
                                       tr.args[4], tr.args[5], tr.args[6])

C4_Witness ==
    /\ tr.pc = "done"
    /\ tr.args[1] = <<>> /\ Len(tr.args[2]) = MaxElemLen /\ Len(tr.args[6]) = 1

----------------------------------------------------------------------------
(* Properties of the exchange. *)

Returned(q) == q.pc \in {"wait3", "established", "aborted"}

\* the confirmation values, from the transcript of the session
RefKa(q)  == SubSeq(Hash(q.tt), 1, HASH_LEN_BYTES \div 2)
RefKe(q)  == SubSeq(Hash(q.tt), HASH_LEN_BYTES \div 2 + 1, HASH_LEN_BYTES)
RefKcA(q) ==
    SubSeq(crypto_KDF(RefKa(q), <<>>, Info_ConfirmationKeys, HASH_LEN_BYTES),
           1, HASH_LEN_BYTES \div 2)
RefKcB(q) ==
    SubSeq(crypto_KDF(RefKa(q), <<>>, Info_ConfirmationKeys, HASH_LEN_BYTES),
           HASH_LEN_BYTES \div 2 + 1, HASH_LEN_BYTES)
RefcA(q) == HMAC(RefKcA(q), q.pake2.pB)
RefcB(q) == HMAC(RefKcB(q), q.pA)

C2_PakeCorrect ==
    \A s \in Sessions :
       LET q == ex.s[s]
       IN  /\ (q.kind = "code" /\ q.pc # "wait1") => Returned(q)
           /\ (q.kind \in {"code", "match"} /\ q.pc \in {"established", "aborted"}
                 /\ q.prover = "confirmed") =>
                (q.cA_received = RefcA(q) => q.pc = "established" /\ q.prover_Ke = q.Ke)
           /\ (q.kind = "mismatch" /\ q.pc \in {"established", "aborted"}) =>
                q.prover = "mismatch"

\* the exchange with the share of a prover that follows the protocol: the
\* same passcode confirms on both sides with one Ke, another passcode does not
ConformantProverAgrees ==
    \A s \in Sessions :
       LET q == ex.s[s]
       IN  /\ (q.kind = "match" /\ q.pc \in {"established", "aborted"}) =>
                /\ q.prover = "confirmed" /\ q.prover_Ke = q.Ke
                /\ q.cA_received = RefcA(q) <=> q.pc = "established"
           /\ (q.kind = "mismatch" /\ q.pc \in {"established", "aborted"}) =>
                q.prover \in {"mismatch", "failed"}

\* C3: the outcome of compute_verification (return or raise, and the pake2
\* fields written) is the same for a well-formed pA from a wrong passcode
\* and for a pA that decodes to no point
C3_Indistinguishable ==
    \A s \in Sessions, t \in Sessions :
       (ex.s[s].kind = "mismatch" /\ ex.s[s].pc # "wait1"
          /\ ex.s[t].kind = "corrupt" /\ ex.s[t].pc # "wait1") =>
             /\ Returned(ex.s[s]) = Returned(ex.s[t])
             /\ ex.s[s].wrote = ex.s[t].wrote

\* C5: Ka and Ke are the halves of Hash(transcript), KcA and KcB the halves
\* of KDF(Ka, "ConfirmationKeys"), cA = HMAC(KcA, pB), cB = HMAC(KcB, pA);
\* pake2.cB holds cB and the call returns cA and Ke
C5_ConfirmationValues ==
    \A s \in Sessions :
       LET q == ex.s[s]
       IN  Returned(q) =>
              /\ q.pake2.cB = RefcB(q)
              /\ q.cA = RefcA(q)
              /\ q.Ke = RefKe(q)
              /\ Len(RefKa(q)) + Len(q.Ke) = HASH_LEN_BYTES
              /\ q.wrote = {"pB", "cB"}

C5_Witness ==
    \E s \in Sessions :
       /\ ex.s[s].pc = "wait3"
       /\ ex.s[s].cA # ex.s[s].pake2.cB
       /\ ex.s[s].pA # ex.s[s].pake2.pB

SessionKDF(q) ==
    crypto_KDF(q.Ke, <<>>, Info_SessionKeys, 3 * SYMMETRIC_KEY_LENGTH_BYTES)

\* C6: i2r_key, r2i_key and attestation_challenge are the three consecutive
\* SYMMETRIC_KEY_LENGTH_BYTES slices of KDF(Ke, "SessionKeys"), covering it
\* without overlap; the i2r and r2i contexts are keyed with i2r_key and r2i_key
C6_SessionKeySlices ==
    \A s \in Sessions :
       LET q == ex.s[s]
           keys == SessionKDF(q)
           n == SYMMETRIC_KEY_LENGTH_BYTES
       IN  q.pc = "established" =>
              /\ Len(keys) = 3 * n
              /\ q.ssc.i2r_key = SubSeq(keys, 1, n)
              /\ q.ssc.r2i_key = SubSeq(keys, n + 1, 2 * n)
              /\ q.ssc.attestation_challenge = SubSeq(keys, 2 * n + 1, 3 * n)
              /\ q.ssc.i2r_key \o q.ssc.r2i_key \o q.ssc.attestation_challenge = keys
              /\ q.ssc.i2r = AESCCM(q.ssc.i2r_key)
              /\ q.ssc.r2i = AESCCM(q.ssc.r2i_key)

C6_Witness ==
    \E s \in Sessions :
       /\ ex.s[s].pc = "established"
       /\ ex.s[s].ssc.i2r.key # ex.s[s].ssc.r2i.key
       /\ Len(ex.s[s].ssc.attestation_challenge) = SYMMETRIC_KEY_LENGTH_BYTES

----------------------------------------------------------------------------
(* Properties of generate_k. *)

\* the candidates of a run that lay in [1, order - 1]
InRange(cands, order) == SelectSeq(cands, LAMBDA s : s >= 1 /\ s <= order - 1)

IsPrefix(a, b) == Len(a) <= Len(b) /\ SubSeq(b, 1, Len(a)) = a

GkBothDone == gk.c[1].pc = "done" /\ gk.c[2].pc = "done"

\* two calls with identical inputs return the same scalar, and a call with
\* retry_gen = 1 returns the second in-range candidate of the candidate
\* sequence the call with retry_gen = 0 draws from
GkDeterministic ==
    GkBothDone =>
       /\ gk.c[1].retry0 = gk.c[2].retry0 => gk.c[1].result = gk.c[2].result
       /\ (gk.c[1].retry0 = 0 /\ gk.c[2].retry0 = 1) =>
             /\ IsPrefix(gk.c[1].cands, gk.c[2].cands)
             /\ Len(InRange(gk.c[2].cands, gk.c[2].order)) = 2
             /\ gk.c[1].result = InRange(gk.c[2].cands, gk.c[2].order)[1]
             /\ gk.c[2].result = InRange(gk.c[2].cands, gk.c[2].order)[2]

\* C8 (as amended): generate_k is deterministic, and with retry_gen = 1 it
\* returns the second in-range candidate of the same candidate sequence
C8_Deterministic == gk.mode = "det" => GkDeterministic

\* C8 (as claimed): ... and that second candidate differs from the value
\* returned with retry_gen = 0
C8_RetryDistinct ==
    gk.mode = "det" =>
       /\ GkDeterministic
       /\ (GkBothDone /\ gk.c[1].retry0 = 0 /\ gk.c[2].retry0 = 1) =>
             gk.c[1].result # gk.c[2].result

C8_Witness ==
    /\ gk.mode = "det" /\ GkBothDone
    /\ gk.c[1].retry0 = 0 /\ gk.c[2].retry0 = 1
    /\ gk.c[1].result # gk.c[2].result
    /\ Len(gk.c[2].cands) > 2

GkCallOk(g) ==
    /\ g.pc = "done" =>
          /\ g.result >= 1 /\ g.result <= g.order - 1
          /\ g.cands # <<>> /\ g.result = g.cands[Len(g.cands)]
          /\ Len(InRange(SubSeq(g.cands, 1, Len(g.cands) - 1), g.order)) = g.retry0
          /\ g.reseeds = Len(g.cands) - 1
    /\ g.pc = "H2" => g.reseeds = Len(g.cands)
    /\ g.pc = "reseed" => g.reseeds = Len(g.cands) - 1
    /\ (g.pc = "H2" /\ g.t = <<>> /\ g.reseeds > 0) =>
          /\ g.k = hmac_digest(g.prek, g.prev \o <<0>>)
          /\ g.v = hmac_digest(g.k, g.prev)

\* C9: a returned value lies in [1, order - 1] and follows exactly retry_gen
\* skipped in-range candidates; every rejected or skipped candidate is
\* followed by the reseed K = HMAC(K, V || 0x00), V = HMAC(K, V) before the
\* next candidate is generated
C9_RangeAndReseed == gk.mode = "det" => \A c \in {1, 2} : GkCallOk(gk.c[c])

C9_Witness ==
    /\ gk.mode = "det"
    /\ \E c \in {1, 2} :
         /\ gk.c[c].pc = "done" /\ gk.c[c].retry0 = 2
         /\ Len(gk.c[c].cands) > 3

\* C10 (as amended): for every order >= 2 with 0 <= secexp < order and
\* retry_gen >= 0 the candidate loop eventually returns under a fair output
\* stream; the call raises only for order 0; for order 1 it never returns
C10_Total ==
    /\ gk.c[1].order >= 2 => <>(gk.c[1].pc = "done")
    /\ [](gk.c[1].pc = "raised" => gk.c[1].order = 0)
    /\ [](gk.c[1].pc = "done" => gk.c[1].order >= 2)

\* C10 (as claimed): the loop eventually returns for every order >= 1
C10_TotalFromOne == gk.c[1].order >= 1 => <>(gk.c[1].pc = "done")

C10_Witness ==
    /\ gk.mode = "stream" /\ gk.c[1].pc = "done"
    /\ gk.c[1].order = 2 /\ gk.c[1].retry0 = MaxRetryGen

----------------------------------------------------------------------------
(* Properties of the number-theory functions. *)

\* a is 0 or a square modulo p
IsResidue(a, p) == \E r \in 0..(p - 1) : (r * r) % p = a

\* C11: for every odd prime p and 0 <= a < p, square_root_mod_prime returns
\* r with r*r % p = a when a is 0 or a quadratic residue, and raises
\* SquareRootError, returning nothing, when a is a non-residue
C11_SquareRoot ==
    (nt.fn = "square_root_mod_prime" /\ nt.pc = "done" /\ nt.m % 2 = 1) =>
       IF IsResidue(nt.a, nt.m)
       THEN /\ nt.out.raised = "none"
            /\ nt.out.value \in 0..(nt.m - 1)
            /\ (nt.out.value * nt.out.value) % nt.m = nt.a
       ELSE nt.out = NtRaise("SquareRootError")

C11_Witness ==
    /\ nt.fn = "square_root_mod_prime" /\ nt.pc = "done"
    /\ nt.m % 8 = 1 /\ nt.a > 1 /\ nt.out.raised = "none"
    /\ (nt.out.value * nt.out.value) % nt.m = nt.a

RECURSIVE GcdRef(_, _)
GcdRef(a, b) == IF b = 0 THEN a ELSE GcdRef(b, a % b)

InvReturned == nt.fn = "inverse_mod" /\ nt.pc = "done" /\ nt.out.raised = "none"

\* C12: for all m and all a with 0 < a < m and gcd(a, m) = 1,
\* (inverse_mod(a, m) * a) % m = 1; and inverse_mod(0, m) returns 0
C12_InverseMod ==
    (nt.fn = "inverse_mod" /\ nt.pc = "done") =>
       /\ (0 < nt.a /\ nt.a < nt.m /\ GcdRef(nt.a, nt.m) = 1) =>
             InvReturned /\ (nt.out.value * nt.a) % nt.m = 1
       /\ nt.a = 0 => nt.out = NtReturn(0)

C12_Witness ==
    /\ InvReturned /\ nt.a = 5 /\ nt.m = 12 /\ nt.out.value = 5

\* inverse_mod terminates, never divides by zero, and returns a value of [0, m)
InverseTerminates ==
    /\ <>(nt.pc = "done")
    /\ [](nt.pc = "done" => InvReturned /\ nt.out.value \in 0..(nt.m - 1))

\* C20: inverse_mod terminates and never divides by zero for every integer a
\* and every modulus m >= 1, its result lies in [0, m), and it returns 0
\* whenever a is congruent to 0 modulo m
C20_InverseTotal ==
    /\ <>(nt.pc = "done")
    /\ [](nt.pc = "done" =>
            /\ InvReturned /\ nt.out.value \in 0..(nt.m - 1)
            /\ nt.a % nt.m = 0 => nt.out.value = 0)

----------------------------------------------------------------------------
(* Properties of concurrent runs of compute_verification. *)

\* the call of run i made alone, with the y it drew
CvAlone(i) ==
    compute_verification(cv.y[i], cv.pake1[i], [pB |-> <<>>, cB |-> <<>>],
                         ContextOf(i), cv.shared.verifier)

CvEnded(i) == cv.pc[i] \in {"returned", "raised"}

----------------------------------------------------------------------------
(* Properties of encode_bitstring. *)

\* the DER definite length of n < 65536
DerLengthRef(n) ==
    IF n < 128 THEN <<n>>
    ELSE IF n < 256 THEN <<129, n>> ELSE <<130, n \div 256, n % 256>>

DerLowBitsSet(s, v) ==
    \E k \in 0..(v - 1) : (s[Len(s)] \div Pow2(k)) % 2 = 1

DerInvalid(s, v) ==
    \/ v < 0 \/ v > 7
    \/ v # 0 /\ s = <<>>
    \/ v # 0 /\ s # <<>> /\ DerLowBitsSet(s, v)

\* unused in 0..7 prepends one byte holding unused; the call raises
\* ValueError for unused outside 0..7, for a non-zero unused with s empty and
\* for a non-zero low unused bit of the last byte
BitstringOnIntegers ==
    (der.pc = "done" /\ ~der.unused.none) =>
       IF DerInvalid(der.s, der.unused.v)
       THEN der.out = NtRaise("ValueError")
       ELSE der.out = NtReturn(<<3>> \o DerLengthRef(Len(der.s) + 1)
                                 \o <<der.unused.v>> \o der.s)

\* C14: encode_bitstring accepts unused=None and then returns 0x03, the
\* length of s and s with no unused-bits byte prepended; for unused in 0..7
\* it prepends one byte holding unused; it raises ValueError for unused
\* outside 0..7, for a non-zero unused with s empty and for a non-zero low
\* unused bit of the last byte
C14_EncodeBitstring ==
    /\ BitstringOnIntegers
    /\ (der.pc = "done" /\ der.unused.none) =>
          der.out = NtReturn(<<3>> \o DerLengthRef(Len(der.s)) \o der.s)

----------------------------------------------------------------------------
(* Properties of the shared points and of the failure of the verifier step. *)

\* the length prefix at offset off of a transcript (lengths below 65536)
PrefixAt(tt, off) == tt[off + 1] + 256 * tt[off + 2]

RECURSIVE FieldStart(_, _)
\* the offset of the prefix of the k-th element of a transcript
FieldStart(tt, k) ==
    IF k = 1 THEN 0
    ELSE FieldStart(tt, k - 1) + 8 + PrefixAt(tt, FieldStart(tt, k - 1))

\* the k-th element of a transcript
Field(tt, k) ==
    Slice(tt, FieldStart(tt, k) + 8, FieldStart(tt, k) + 8 + PrefixAt(tt, FieldStart(tt, k)))

SessionW0(q) == FromBytesBE(Slice(ex.verifier, 0, GROUP_SIZE_BYTES), 0)
SessionW1(q) == ProverW(ex.passcode)[2]
SessionY(q) == PointAdd(PointMul(q.y, Generator), PointMul(SessionW0(q), N))
ExpectedZ(q) == PointMul(CurveCofactor * q.y * q.x, Generator)
ExpectedV(q) == PointMul(CurveCofactor * q.y * SessionW1(q), Generator)

C16_DecodeFailureAtomic ==
    \A s \in Sessions :
       LET q == ex.s[s]
       IN  (q.pc # "wait1" /\ ~CanDecode(q.pA)) =>
              /\ q.pc = "raised"
              /\ q.cA = <<>> /\ q.Ke = <<>>
              /\ q.pake2 = NewSession.pake2 /\ q.wrote = {}
              /\ q.draws = 0

\* C17: Crypto_Transcript is injective: two argument tuples that differ in
\* any element, also when they differ only in how the bytes are split
\* between adjacent elements, never give the same transcript
C17_TranscriptInjective ==
    (tr.pc = "paired" /\ tr.a # tr.b) => tr.ta # tr.tb

\* the arguments are read back from the transcript
TranscriptReadBack ==
    tr.pc = "paired" => \A k \in 1..6 : Field(tr.ta, IF k = 1 THEN 1 ELSE k + 4) = tr.a[k]

C17_Witness ==
    /\ tr.pc = "paired"
    /\ tr.a[2] = <<97>> /\ tr.a[3] = <<>>
    /\ tr.b[2] = <<>> /\ tr.b[3] = <<97>>
    /\ \A k \in {1, 4, 5, 6} : tr.a[k] = tr.b[k]
    /\ tr.ta # tr.tb /\ Len(tr.ta) = Len(tr.tb)

\* the rounds of the schedule for n_bits = 1 + bit_length(n)
ScheduleRef(n_bits) ==
    IF n_bits < 100 THEN 40 ELSE IF n_bits < 150 THEN 27
    ELSE IF n_bits < 200 THEN 18 ELSE IF n_bits < 250 THEN 15
    ELSE IF n_bits < 300 THEN 12 ELSE IF n_bits < 350 THEN 9
    ELSE IF n_bits < 400 THEN 8 ELSE IF n_bits < 450 THEN 7
    ELSE IF n_bits < 550 THEN 6 ELSE IF n_bits < 650 THEN 5
    ELSE IF n_bits < 850 THEN 4 ELSE IF n_bits < 1300 THEN 3 ELSE 2

IsPrimeDone == nt.fn = "is_prime" /\ nt.pc = "done"

\* C18: for every n above the small-prime table that passes the
\* gcd(n, 2310) screen, is_prime runs the number of Miller-Rabin rounds the
\* schedule gives for n's bit length (40 for the smallest inputs, never less
\* than 2), each with a base of smallprimes
C18_RoundSchedule ==
    (IsPrimeDone /\ nt.a > smallprimes_last /\ GcdRef(nt.a, 2310) = 1) =>
       /\ nt.out.raised = "none"
       /\ nt.t = ScheduleRef(1 + bit_length(nt.a)) /\ nt.t = 40 /\ nt.t >= 2
       /\ nt.bases # {} /\ nt.bases \subseteq smallprimes

\* is_prime is exact on the table range
IsPrimeExactOnTable ==
    (IsPrimeDone /\ nt.a <= smallprimes_last) => nt.out = NtReturn(IsPrimeRef(nt.a))

\* C19: is_prime returns True for every prime n whatever bases are drawn;
\* for n <= 1229 (n < 2 included) it returns True exactly when n is prime;
\* for n above the table sharing a factor with 2310 it returns False
C19_NoFalseNegatives ==
    /\ IsPrimeExactOnTable
    /\ (IsPrimeDone /\ IsPrimeRef(nt.a)) => nt.out = NtReturn(TRUE)
    /\ (IsPrimeDone /\ nt.a > smallprimes_last /\ GcdRef(nt.a, 2310) # 1) =>
          nt.out = NtReturn(FALSE)

----------------------------------------------------------------------------
(* Properties of the ZeroConf wrapper. *)

ZcHeld == {zc.service_infos[i].value : i \in 1..Len(zc.service_infos)}

ZcLogged(op, info) ==
    {i \in 1..Len(zc.zeroconf.log) : zc.zeroconf.log[i] = [op |-> op, info |-> info]}

\* between calls every registered ServiceInfo is a value of service_infos
ZcRegisteredHeld == zc.pc = "live" => zc.zeroconf.services \subseteq ZcHeld

\* once closed, every ServiceInfo that was registered was unregistered exactly
\* once, and the close came after every unregistration
ZcTeardownComplete ==
    zc.pc = "closed" =>
        /\ \A info \in 1..zc.made :
              ZcLogged("register", info) # {} => Cardinality(ZcLogged("unregister", info)) = 1
        /\ ZcLogged("close", 0) = {Len(zc.zeroconf.log)}

\* the part that holds: as long as no call raised and every assignment to
\* service_infos added a new key, nothing registered is lost
ZcNoKeyLost == zc.raised = "none" /\ Len(zc.service_infos) = zc.made

ZcHeldWhenNoKeyLost ==
    /\ (zc.pc = "live" /\ ZcNoKeyLost) => zc.zeroconf.services \subseteq ZcHeld
    /\ (zc.pc = "closed" /\ ZcNoKeyLost) => (ZcTeardownComplete /\ zc.zeroconf.services = {})

\* C21: after any sequence of advertise_service calls, repeated calls with the
\* same service_type and instance_name and calls relying on the default
\* subtypes included, every ServiceInfo registered with the Zeroconf instance
\* is still held in service_infos, so that __del__ unregisters each registered
\* service exactly once and only then closes the Zeroconf instance.
C21_RegisteredStillHeld == ZcRegisteredHeld /\ ZcTeardownComplete

====
